---- MODULE Spec2Model ----
(***************************************************************************)
(* Model of the feed assembly pipeline of the ranker service:              *)
(*   app/ranker/diversifier.py        filter, ratio slicing, interleaving  *)
(*   app/ranker/model.py              scoring gateway with fallback        *)
(*   app/ranker/candidate_sources.py  feature stubs, metadata hydration    *)
(*   app/connectors/firestore.py      shown-set history store              *)
(*   app/connectors/bigquery.py       secondary catalog store              *)
(*   app/main.py                      get_diverse_feed                     *)
(*                                                                         *)
(* Conventions.  A Python list is a sequence.  A Python dict is a sequence *)
(* of <<key, value>> pairs with distinct keys, in insertion order.  An     *)
(* optional value is <<>> (None) or <<v>>.  Product ids are strings.  A    *)
(* float score is an integer here; only its order and its equality with    *)
(* 0.0 matter.  A ratio is an integer number of hundredths; for every      *)
(* ratio and size used below int(ratio * size) in double arithmetic equals *)
(* the exact truncation computed by IntTrunc.                              *)
(***************************************************************************)
EXTENDS Integers, Sequences, FiniteSets, TLC

VARIABLES
    \* ---- one get_diverse_feed request (app/main.py) ----
    pc,               \* position of the request handler
    user_id,          \* query parameter user_id
    fs_client,        \* local fs_client: "none" or "client"
    n,                \* query parameter n: <<>> when absent, <<k>> when given
    final_feed_size,  \* local final_feed_size
    shown_set,        \* local shown_set
    slices,           \* local slices
    final_ids,        \* local final_ids
    product_metadata, \* local product_metadata
    feed,             \* ids of FeedResponse.feed, in order
    fs_calls,         \* history-store calls made by the request, in order
    raised,           \* the call whose exception ended the request, or ""
    \* ---- environment ----
    history,          \* Firestore user_feed_history/{user}/shown document ids
    settings,         \* the cached Settings object
    \* ---- a call of one library function ----
    inp,              \* arguments of the call
    out               \* its progress and results

vars == <<pc, user_id, fs_client, n, final_feed_size, shown_set, slices,
          final_ids, product_metadata, feed, fs_calls, raised, history,
          settings, inp, out>>

pipeVars == <<pc, user_id, fs_client, n, final_feed_size, shown_set, slices,
              final_ids, product_metadata, feed, fs_calls, raised, history,
              settings>>

-----------------------------------------------------------------------------
(* Bounds *)

NumIds == 3          \* number of product ids in the catalog
MaxBucketLen == 2    \* longest category / fresh bucket handed to the slicer
MaxSize == 4         \* largest explicit final feed size of a slicer call

IdNames == <<"a", "b", "c", "d", "e", "f", "g", "h", "i", "j">>
Ids == {IdNames[i] : i \in 1..NumIds}

\* The ids in catalog order, and its prefixes.
CanonIds(k) == [i \in 1..k |-> IdNames[i]]

None == <<>>
Some(x) == <<x>>

-----------------------------------------------------------------------------
(* Python built-ins *)

Range(s) == {s[i] : i \in DOMAIN s}

IsDupFree(s) == \A i, j \in DOMAIN s : s[i] = s[j] => i = j

\* Duplicate-free sequences over S of length at most k.
SeqsNoDup(S, k) ==
    {s \in UNION {[1..m -> S] : m \in 0..k} : IsDupFree(s)}

Min(a, b) == IF a <= b THEN a ELSE b
Max(a, b) == IF a >= b THEN a ELSE b

\* int(x) for x = num / den, den > 0: truncation toward zero.
IntTrunc(num, den) ==
    IF num >= 0 THEN num \div den ELSE -((-num) \div den)

\* A slice index as Python clamps it: negative counts from the end.
ClampIndex(i, len) ==
    IF i < 0 THEN Max(len + i, 0) ELSE Min(i, len)

\* s[start:stop]
PySlice(s, start, stop) ==
    LET lo == ClampIndex(start, Len(s))
        hi == ClampIndex(stop, Len(s))
    IN  IF hi <= lo THEN <<>> ELSE SubSeq(s, lo + 1, hi)

\* s[::-1]
Reverse(s) == [i \in DOMAIN s |-> s[Len(s) + 1 - i]]

\* [pid for pid, _ in pairs]
Keys(pairs) == [i \in DOMAIN pairs |-> pairs[i][1]]

\* list(dict.fromkeys(s)): first occurrences, in order.
RECURSIVE DictFromKeys(_)
DictFromKeys(s) ==
    IF s = <<>> THEN <<>>
    ELSE LET front == DictFromKeys(SubSeq(s, 1, Len(s) - 1))
             last == s[Len(s)]
         IN  IF last \in Range(front) THEN front ELSE Append(front, last)

\* Insert pair p into the score-descending list s behind every entry whose
\* score is at least p's.
RECURSIVE InsertDesc(_, _)
InsertDesc(s, p) ==
    IF s = <<>> THEN <<p>>
    ELSE IF s[Len(s)][2] >= p[2] THEN Append(s, p)
    ELSE Append(InsertDesc(SubSeq(s, 1, Len(s) - 1), p), s[Len(s)])

\* A descending sort that puts equal scores in the opposite of their
\* original order, as sorted(d.items(), key=lambda x: x[1])[::-1] does.
RECURSIVE SortedDescTiesReversed(_)
SortedDescTiesReversed(pairs) ==
    IF pairs = <<>> THEN <<>>
    ELSE InsertDesc(SortedDescTiesReversed(Tail(pairs)), Head(pairs))

\* sorted(d.items(), key=lambda x: x[1], reverse=True): stable, descending.
RECURSIVE SortedDesc(_)
SortedDesc(pairs) ==
    IF pairs = <<>> THEN <<>>
    ELSE InsertDesc(SortedDesc(SubSeq(pairs, 1, Len(pairs) - 1)),
                    pairs[Len(pairs)])

-----------------------------------------------------------------------------
(* app/settings.py *)

RatioScale == 100

\* BucketRatios(): personal 0.75, category 0.15, fresh 0.10
DefaultRatios == [personal |-> 75, category |-> 15, fresh |-> 10]

feed_default_size == 50

-----------------------------------------------------------------------------
(* app/ranker/diversifier.py *)

\* filter_seen_pairs with the membership test inverted.
filter_seen_pairs_inverted(bucket_list, shown) ==
    LET kept == {i \in DOMAIN bucket_list : bucket_list[i][1] \in shown}
        nth(k) == CHOOSE i \in kept : Cardinality({j \in kept : j < i}) = k - 1
    IN  [k \in 1..Cardinality(kept) |-> bucket_list[nth(k)]]

RECURSIVE filter_seen_pairs(_, _)
filter_seen_pairs(bucket_list, shown) ==
    IF bucket_list = <<>> THEN <<>>
    ELSE LET front == filter_seen_pairs(
                          SubSeq(bucket_list, 1, Len(bucket_list) - 1), shown)
             last == bucket_list[Len(bucket_list)]
         IN  IF last[1] \notin shown THEN Append(front, last) ELSE front

\* num_personal, num_category, num_fresh
SlotCount(ratio, size) == IntTrunc(ratio * size, RatioScale)

\* slice_buckets_by_ratio without the backfill of lines 29-32.
slice_without_backfill(personal, category, fresh, size, ratios) ==
    [personal |-> Keys(PySlice(personal, 0,
                               SlotCount(ratios.personal, size))),
     category |-> Keys(PySlice(category, 0,
                               SlotCount(ratios.category, size))),
     fresh |-> Keys(PySlice(fresh, 0, SlotCount(ratios.fresh, size)))]

\* slice_buckets_by_ratio backfilling with all of personal[num_personal:].
slice_backfill_unbounded(personal, category, fresh, size, ratios) ==
    LET num_personal == SlotCount(ratios.personal, size)
        plain == slice_without_backfill(personal, category, fresh, size,
                                        ratios)
        combined_len == Len(plain.personal) + Len(plain.category)
                            + Len(plain.fresh)
    IN  IF combined_len < size
        THEN [plain EXCEPT !.personal =
                  @ \o Keys(PySlice(personal, num_personal, Len(personal)))]
        ELSE plain

\* slice_buckets_by_ratio backfilling with personal[:deficit], from the start
\* of the bucket instead of from num_personal.
slice_backfill_from_start(personal, category, fresh, size, ratios) ==
    LET plain == slice_without_backfill(personal, category, fresh, size,
                                        ratios)
        combined_len == Len(plain.personal) + Len(plain.category)
                            + Len(plain.fresh)
    IN  IF combined_len < size
        THEN [plain EXCEPT !.personal =
                  @ \o Keys(PySlice(personal, 0, size - combined_len))]
        ELSE plain

slice_buckets_by_ratio(personal, category, fresh, size, ratios) ==
    LET num_personal == SlotCount(ratios.personal, size)
        num_category == SlotCount(ratios.category, size)
        num_fresh == SlotCount(ratios.fresh, size)
        personal_slice == Keys(PySlice(personal, 0, num_personal))
        category_slice == Keys(PySlice(category, 0, num_category))
        fresh_slice == Keys(PySlice(fresh, 0, num_fresh))
        combined_len == Len(personal_slice) + Len(category_slice)
                            + Len(fresh_slice)
        deficit == size - combined_len
        backfill == Keys(PySlice(personal, num_personal,
                                 num_personal + deficit))
    IN  [personal |-> IF combined_len < size
                      THEN personal_slice \o backfill
                      ELSE personal_slice,
         category |-> category_slice,
         fresh |-> fresh_slice]

pattern == <<"personal", "personal", "personal", "category", "fresh">>

QueueOrder == <<"personal", "category", "fresh">>

AnyQueue(queues) == \E k \in DOMAIN QueueOrder : queues[QueueOrder[k]] # <<>>

\* PopLeft taking the id from the right end of the queue, as pop() does.
PopRight(st, name) ==
    [st EXCEPT !.final_feed = Append(@, st.queues[name][Len(st.queues[name])]),
               !.queues = [@ EXCEPT ![name] = SubSeq(@, 1, Len(@) - 1)]]

\* queues[name].popleft(), the popped id appended to final_feed
PopLeft(st, name) ==
    [st EXCEPT !.final_feed = Append(@, st.queues[name][1]),
               !.queues = [@ EXCEPT ![name] = Tail(@)]]

\* WalkStep whose fallback looks at category, then fresh, then personal.
WalkStepCategoryFirst(st) ==
    LET bucket_name == pattern[(st.i % Len(pattern)) + 1]
        order == <<"category", "fresh", "personal">>
        nonEmpty == {k \in DOMAIN order : st.queues[order[k]] # <<>>}
        first == CHOOSE k \in nonEmpty : \A m \in nonEmpty : k <= m
        popped == IF st.queues[bucket_name] # <<>>
                  THEN PopLeft(st, bucket_name)
                  ELSE IF nonEmpty # {}
                  THEN PopLeft(st, order[first])
                  ELSE st
    IN  [popped EXCEPT !.i = @ + 1]

\* WalkStep that skips the slot of an empty queue.
WalkStepSkipEmpty(st) ==
    LET bucket_name == pattern[(st.i % Len(pattern)) + 1]
        popped == IF st.queues[bucket_name] # <<>>
                  THEN PopLeft(st, bucket_name)
                  ELSE st
    IN  [popped EXCEPT !.i = @ + 1]

\* One pass of the body of the while loop (lines 53-62).
WalkStep(st) ==
    LET bucket_name == pattern[(st.i % Len(pattern)) + 1]
        nonEmpty == {k \in DOMAIN QueueOrder : st.queues[QueueOrder[k]] # <<>>}
        first == CHOOSE k \in nonEmpty : \A m \in nonEmpty : k <= m
        popped == IF st.queues[bucket_name] # <<>>
                  THEN PopLeft(st, bucket_name)
                  ELSE IF nonEmpty # {}
                  THEN PopLeft(st, QueueOrder[first])
                  ELSE st
    IN  [popped EXCEPT !.i = @ + 1]

\* CyclicWalk going on while final_feed holds size entries or fewer.
RECURSIVE CyclicWalkPastSize(_, _)
CyclicWalkPastSize(st, size) ==
    IF Len(st.final_feed) <= size /\ AnyQueue(st.queues)
    THEN CyclicWalkPastSize(WalkStep(st), size)
    ELSE st

\* The while loop of lines 52-62.
RECURSIVE CyclicWalk(_, _)
CyclicWalk(st, size) ==
    IF Len(st.final_feed) < size /\ AnyQueue(st.queues)
    THEN CyclicWalk(WalkStep(st), size)
    ELSE st

\* The inner while loop of lines 67-68 for one queue.
RECURSIVE DrainQueue(_, _, _)
DrainQueue(st, name, size) ==
    IF Len(st.final_feed) < size /\ st.queues[name] # <<>>
    THEN DrainQueue(PopLeft(st, name), name, size)
    ELSE st

\* Pad without the length tests of lines 65 and 67.
PadWithoutSizeTest(st, size) ==
    [st EXCEPT !.final_feed = @ \o st.queues.personal \o st.queues.category
                                \o st.queues.fresh,
               !.queues = [personal |-> <<>>, category |-> <<>>,
                           fresh |-> <<>>]]

\* Lines 65-70: pad from personal, then category, then fresh.
Pad(st, size) ==
    IF Len(st.final_feed) < size
    THEN DrainQueue(DrainQueue(DrainQueue(st, "personal", size),
                               "category", size), "fresh", size)
    ELSE st

\* Lines 73-80: keep first occurrences, stop once size ids are kept.
\* Dedupe without the membership test of line 76.
DedupeKeepAll(final_feed, unique_final, size) == unique_final \o final_feed

RECURSIVE Dedupe(_, _, _)
Dedupe(final_feed, unique_final, size) ==
    IF final_feed = <<>> THEN unique_final
    ELSE LET pid == Head(final_feed)
             kept == IF pid \in Range(unique_final) THEN unique_final
                     ELSE Append(unique_final, pid)
         IN  IF Len(kept) = size THEN kept
             ELSE Dedupe(Tail(final_feed), kept, size)

InterleaveStart(the_slices) ==
    [queues |-> [personal |-> the_slices.personal,
                 category |-> the_slices.category,
                 fresh |-> the_slices.fresh],
     final_feed |-> <<>>,
     i |-> 0]

interleave_buckets(the_slices, size) ==
    Dedupe(Pad(CyclicWalk(InterleaveStart(the_slices), size), size).final_feed,
           <<>>, size)

-----------------------------------------------------------------------------
(* app/ranker/model.py *)

ScoreVals == {0, 1}

\* What one call of the scoring capability does.
\*   raise       it raises
\*   none        it returns None
\*   empty       it returns {}
\*   scores      it returns the non-empty dict .scores
\*   bad_scores  it returns a non-empty dict holding a value float() rejects

\* predict(features): the mocked model call, which returns None.
predict(features) == [kind |-> "none", scores |-> <<>>]

\* {str(k): float(v) for k, v in d.items()} on str keys and float values
CoerceScores(d) == [i \in DOMAIN d |-> <<d[i][1], d[i][2]>>]

\* {str(pid): 0.0 for pid in features.keys()}
ZeroFill(features) == [i \in DOMAIN features |-> <<features[i], 0>>]

\* Lines 17-23: what follows the try block.
AfterTry(features, fallback_scores) ==
    IF fallback_scores # None /\ Len(fallback_scores[1]) > 0
    THEN [raised |-> FALSE, value |-> CoerceScores(fallback_scores[1])]
    ELSE [raised |-> FALSE, value |-> ZeroFill(features)]

\* ScoreWith without the try/except around the call of predict.
ScoreWithoutTry(scorer, features, fallback_scores) ==
    IF scorer.kind \in {"raise", "bad_scores"}
    THEN [raised |-> TRUE, value |-> <<>>]
    ELSE IF scorer.kind = "scores" /\ scorer.scores # <<>>
    THEN [raised |-> FALSE, value |-> CoerceScores(scorer.scores)]
    ELSE AfterTry(features, fallback_scores)

\* The body of score_with_model_or_fallback for a given behaviour of
\* predict.  features is the list of keys of the features dict.
ScoreWith(scorer, features, fallback_scores) ==
    IF scorer.kind = "scores" /\ scorer.scores # <<>>
    THEN [raised |-> FALSE, value |-> CoerceScores(scorer.scores)]
    ELSE AfterTry(features, fallback_scores)

score_with_model_or_fallback(features, fallback_scores) ==
    ScoreWith(predict(features), features, fallback_scores)

-----------------------------------------------------------------------------
(* app/ranker/candidate_sources.py, app/connectors/bigquery.py *)

\* {str(pid): 1.0 for pid in prod_ids}
fetch_freshness_metrics(prod_ids) ==
    LET keys == DictFromKeys(prod_ids)
    IN  [i \in DOMAIN keys |-> <<keys[i], 1>>]

\* {str(pid): {} for pid in prod_ids}, as its list of keys
fetch_features_for_ids(prod_ids) == DictFromKeys(prod_ids)

\* The rows of a table whose key is among prod_ids.
RECURSIVE SelectIds(_, _)
SelectIds(table, prod_ids) ==
    IF prod_ids = <<>> THEN <<>>
    ELSE LET front == SelectIds(table, SubSeq(prod_ids, 1, Len(prod_ids) - 1))
             last == prod_ids[Len(prod_ids)]
         IN  IF last \in table /\ last \notin Range(front)
             THEN Append(front, last) ELSE front

\* WHERE product_id = ANY(prod_ids) without ORDER BY: the keys of the
\* stored rows that are among prod_ids, in the order the table stores them.
RECURSIVE SelectRows(_, _)
SelectRows(table, prod_ids) ==
    IF table = <<>> THEN <<>>
    ELSE LET front == SelectRows(SubSeq(table, 1, Len(table) - 1), prod_ids)
             last == table[Len(table)]
         IN  IF last \in Range(prod_ids) THEN Append(front, last) ELSE front

\* PostgresClient.get_product_metadata_for_ids: rows keyed "product_id",
\* none for an empty id list (lines 81-82).
\* table is the list of the primary keys of the products table in storage
\* order.  The other selected columns do not influence control flow and are
\* left out.
PgMetadataRows(table, prod_ids) ==
    LET found == IF prod_ids = <<>> THEN <<>> ELSE SelectRows(table, prod_ids)
    IN  [i \in DOMAIN found |-> [product_id |-> found[i]]]

\* BigQueryClient.get_product_metadata_for_ids: rows keyed "prod_id".
BqMetadataRows(table, prod_ids) ==
    LET found == IF prod_ids = <<>> THEN <<>> ELSE SelectIds(table, prod_ids)
    IN  [i \in DOMAIN found |-> [prod_id |-> found[i], title |-> None]]

\* One of the two "for row in rows" loops of join_product_metadata:
\* result[row["product_id"]] = {...}.  A row without the key "product_id"
\* raises KeyError and ends the loop.
RECURSIVE MapRows(_, _)
MapRows(rows, result) ==
    IF rows = <<>> THEN [raised |-> FALSE, value |-> result]
    ELSE IF "product_id" \notin DOMAIN Head(rows)
    THEN [raised |-> TRUE, value |-> result]
    ELSE LET pid == Head(rows).product_id
             rec == <<pid, [id |-> pid]>>
             idx == {i \in DOMAIN result : result[i][1] = pid}
             put == IF idx = {} THEN Append(result, rec)
                    ELSE [i \in DOMAIN result |->
                            IF i \in idx THEN rec ELSE result[i]]
         IN  MapRows(Tail(rows), put)

\* join_product_metadata(pg, prod_ids).
\*   pg  [ok, table]: whether the primary store answers, and the ids it
\*       holds in storage order; the store is not connected to for an empty
\*       id list
\*   bq  [configured, available, table]: settings.bq_dataset and
\*       settings.bq_table_products set; the client can be built and
\*       queried; the ids the secondary store holds
join_product_metadata(pg, bq, prod_ids) ==
    IF prod_ids # <<>> /\ ~pg.ok THEN [raised |-> TRUE, value |-> <<>>]
    ELSE LET primary == MapRows(PgMetadataRows(pg.table, prod_ids), <<>>)
         IN  IF primary.value # <<>> THEN primary
             ELSE IF bq.configured /\ bq.available
             THEN [raised |-> FALSE,
                   value |-> MapRows(BqMetadataRows(bq.table, prod_ids),
                                     <<>>).value]
             ELSE [raised |-> FALSE, value |-> <<>>]

-----------------------------------------------------------------------------
(* app/connectors/firestore.py *)

\* get_shown_set_fs answering with the documents it streamed when the read
\* raises.
get_shown_set_fs_partial(client, fails, hist, user) ==
    IF client = "none" THEN {} ELSE hist[user]

\* get_shown_set_fs(fs_client, user_id).  client (fs_client) is "none" or "client";
\* fails says whether the read raises.
get_shown_set_fs(client, fails, hist, user) ==
    IF client = "none" THEN {}
    ELSE IF fails THEN {}
    ELSE hist[user]

\* add_shown_items_fs writing only the first id of prod_ids.
add_shown_items_fs_first_only(client, fails, hist, user, prod_ids) ==
    IF client = "none" \/ prod_ids = <<>> \/ fails THEN hist
    ELSE [hist EXCEPT ![user] = @ \cup {prod_ids[1]}]

\* add_shown_items_fs without the batch.commit() of line 59.
add_shown_items_fs_uncommitted(client, fails, hist, user, prod_ids) == hist

\* add_shown_items_fs(fs_client, user_id, prod_ids): the store afterwards.
add_shown_items_fs(client, fails, hist, user, prod_ids) ==
    IF client = "none" THEN hist
    ELSE IF prod_ids = <<>> THEN hist
    ELSE IF fails THEN hist
    ELSE [hist EXCEPT ![user] = @ \cup Range(prod_ids)]

-----------------------------------------------------------------------------
(* app/main.py: get_diverse_feed *)

MaxN == 2             \* largest explicit query parameter n of a feed request

MonolithCandidateLimit == 500

Users == {"anonymous", "u1"}

\* user_id while no request is being handled
NoUser == ""

IdIndex(pid) == CHOOSE i \in DOMAIN IdNames : IdNames[i] = pid

\* The query parameter n: absent, negative, zero or positive.
NValues == {None} \cup {Some(k) : k \in -1..MaxN}

\* Answers of the recent-products query: some products, newest first, the
\* newest being the last of the catalog order.
RECURSIVE NewestFirst(_)
NewestFirst(S) ==
    IF S = {} THEN <<>>
    ELSE LET top == CHOOSE x \in S : \A y \in S : IdIndex(y) <= IdIndex(x)
         IN  <<top>> \o NewestFirst(S \ {top})

RecentAnswers ==
    {NewestFirst(S) : S \in {T \in SUBSET Ids : Cardinality(T) <= MaxBucketLen}}

\* Answers of the recent-products query when the products of the last 24
\* hours are the newest r of the catalog, newest first.
NewestAnswers ==
    {NewestFirst({IdNames[i] : i \in (NumIds - r + 1)..NumIds}) :
        r \in 0..MaxBucketLen}

\* n or settings.feed_default_size
FinalFeedSize(nn) ==
    IF nn = None \/ nn[1] = 0 THEN feed_default_size ELSE nn[1]


\* Ranking models the Monolith server may serve: one prefers every other
\* product of the catalog, one prefers the last product.
MonolithModels ==
    {[pid \in Ids |-> IdIndex(pid) % 2],
     [pid \in Ids |-> IF IdIndex(pid) = NumIds THEN 1 ELSE 0]}

\* What MonolithClient.predict does for the candidates it is given:
\* it raises, or it returns one score for each of them; for no candidates
\* it returns no scores without calling the server (lines 54-56).
MonolithOutcomes(candidates) ==
    (IF candidates = <<>> THEN {}
     ELSE {[kind |-> "raise", scores |-> <<>>]}) \cup
    {[kind |-> "scores",
      scores |-> [i \in DOMAIN candidates |->
                    <<candidates[i], model[candidates[i]]>>]] :
        model \in MonolithModels}

\* What a Monolith server does: it raises, or it scores with its model.
MonolithBehaviours ==
    {[kind |-> "raise", model |-> [pid \in Ids |-> 0]]} \cup
    {[kind |-> "scores", model |-> m] : m \in MonolithModels}

\* MonolithClient.predict of a server for the candidates it is given; the
\* server is not called for an empty list (lines 54-56).
MonolithAnswer(server, candidates) ==
    IF candidates = <<>> THEN [kind |-> "scores", scores |-> <<>>]
    ELSE IF server.kind = "raise" THEN [kind |-> "raise", scores |-> <<>>]
    ELSE [kind |-> "scores",
          scores |-> [i \in DOMAIN candidates |->
                        <<candidates[i], server.model[candidates[i]]>>]]

\* A handler that tracks every user id alike.
IsAnonymousNever(u) == FALSE

\* Line 331
IsAnonymous(u) == u = "anonymous"

\* Line 339: [pid for pid in candidates_raw if pid not in shown_set]
RECURSIVE Unseen(_, _)
Unseen(ids, shown) ==
    IF ids = <<>> THEN <<>>
    ELSE LET front == Unseen(SubSeq(ids, 1, Len(ids) - 1), shown)
             last == ids[Len(ids)]
         IN  IF last \notin shown THEN Append(front, last) ELSE front

\* Lines 337-339
CandidatesUnseen(shown, popular_ids, recent_ids) ==
    Unseen(DictFromKeys(popular_ids \o recent_ids), shown)

\* Line 342
UsesMonolith(monolith_enabled, is_anonymous, candidates_unseen) ==
    monolith_enabled /\ ~is_anonymous /\ candidates_unseen # <<>>

\* Lines 335-399 and 420: the personal bucket handed to the slicer.
\* mono is the outcome of the Monolith call, used only when it is made.
PersonalBucket(shown, is_anonymous, enabled, popular_ids, recent_ids, mono) ==
    LET candidates_unseen == CandidatesUnseen(shown, popular_ids, recent_ids)
        stub == score_with_model_or_fallback(
                    fetch_features_for_ids(candidates_unseen), None).value
        personal_scores ==
            IF UsesMonolith(enabled, is_anonymous, candidates_unseen)
               /\ mono.kind = "scores"
            THEN mono.scores
            ELSE stub
    IN  filter_seen_pairs(SortedDesc(personal_scores), shown)

\* Lines 402-409 and 421: top_categories is the empty list.
CategoryBucket(shown) ==
    LET cat_bucket_ids == <<>>
        cat_bucket_unseen == Unseen(cat_bucket_ids, shown)
        cat_scores == score_with_model_or_fallback(
                          fetch_features_for_ids(cat_bucket_unseen), None).value
    IN  filter_seen_pairs(SortedDesc(cat_scores), shown)

\* FreshBucket without the two seen filters of lines 413 and 422.
FreshBucketUnfiltered(shown, recent_pool) ==
    LET freshness_metrics == fetch_freshness_metrics(recent_pool)
        fresh_features == fetch_features_for_ids(Keys(freshness_metrics))
        fresh_model_scores == score_with_model_or_fallback(
                                  fresh_features, Some(freshness_metrics)).value
    IN  SortedDesc(fresh_model_scores)

\* Lines 412-417 and 422
FreshBucket(shown, recent_pool) ==
    LET recent_unseen == Unseen(recent_pool, shown)
        freshness_metrics == fetch_freshness_metrics(recent_unseen)
        fresh_features == fetch_features_for_ids(Keys(freshness_metrics))
        fresh_model_scores == score_with_model_or_fallback(
                                  fresh_features, Some(freshness_metrics)).value
    IN  filter_seen_pairs(SortedDesc(fresh_model_scores), shown)

\* BuildItems iterating the metadata map instead of the id list.
BuildItemsInMapOrder(ids, product_metadata_map) ==
    SelectRows(Keys(product_metadata_map), ids)

\* Lines 444-461: the ids of final_ids that have a metadata record.
RECURSIVE BuildItems(_, _)
BuildItems(ids, product_metadata_map) ==
    IF ids = <<>> THEN <<>>
    ELSE LET rest == BuildItems(Tail(ids), product_metadata_map)
         IN  IF \E i \in DOMAIN product_metadata_map :
                    product_metadata_map[i][1] = Head(ids)
             THEN <<Head(ids)>> \o rest ELSE rest

\* The answers of the catalog queries of one request.
CatalogAnswers(popular_ids, recent_ids, recent_pool) ==
    [popular_ids |-> popular_ids, recent_ids |-> recent_ids,
     recent_pool |-> recent_pool]

\* Lines 335-431: the three buckets, sliced.  cat.popular_ids and
\* cat.recent_ids are the answers of lines 335 and 336, cat.recent_pool the
\* answer of the second recent query on line 412.
AssembleSlices(shown, is_anonymous, cfg, size, cat, mono) ==
    LET personalized_sorted ==
            PersonalBucket(shown, is_anonymous, cfg.monolith_enabled,
                           cat.popular_ids, cat.recent_ids, mono)
        cat_div_sorted == CategoryBucket(shown)
        fresh_div_sorted == FreshBucket(shown, cat.recent_pool)
    IN  slice_buckets_by_ratio(personalized_sorted, cat_div_sorted,
                               fresh_div_sorted, size, cfg.bucket_ratios)

NoSlices == [personal |-> <<>>, category |-> <<>>, fresh |-> <<>>]

\* The shown documents of the registered user start empty; the store holds
\* one shown document under the id "anonymous", left by a client that
\* tracked it.
PipeInit ==
    /\ pc = "idle"
    /\ user_id = NoUser
    /\ fs_client = "none"
    /\ n = None
    /\ final_feed_size = feed_default_size
    /\ shown_set = {}
    /\ slices = NoSlices
    /\ final_ids = <<>>
    /\ product_metadata = <<>>
    /\ feed = <<>>
    /\ fs_calls = <<>>
    /\ raised = ""
    /\ history = [u \in Users |-> IF u = "anonymous" THEN {IdNames[1]} ELSE {}]

NoCall == [fn |-> "none"]

Init ==
    /\ PipeInit
    /\ settings \in [monolith_enabled : BOOLEAN,
                     bucket_ratios : {DefaultRatios}]
    /\ inp = NoCall
    /\ out = NoCall

\* Lines 320-332: the request arrives and the shown-set is loaded.
\* client: what get_firestore_client_safe returns; fails: whether the
\* history read raises.
LoadHistory(u, nn, client, fails) ==
    /\ pc = "idle"
    /\ user_id' = u
    /\ fs_client' = client
    /\ n' = nn
    /\ final_feed_size' = FinalFeedSize(nn)
    /\ LET is_anonymous == IsAnonymous(u)
       IN  /\ shown_set' = IF is_anonymous THEN {}
                           ELSE get_shown_set_fs(client, fails,
                                                 history, u)
           /\ fs_calls' = IF is_anonymous THEN <<>> ELSE <<"get_shown">>
    /\ slices' = NoSlices
    /\ final_ids' = <<>>
    /\ product_metadata' = <<>>
    /\ feed' = <<>>
    /\ pc' = "history_loaded"
    /\ UNCHANGED <<raised, history, settings, inp, out>>

\* Lines 335-434 when every catalog query answers.  popular_ids and
\* recent_ids are the answers of lines 335 and 336, recent_pool the answer
\* of the second recent query on line 412; the catalog may have changed
\* between the two.
Assemble(popular_ids, recent_ids, recent_pool, mono) ==
    /\ pc = "history_loaded"
    /\ slices' = AssembleSlices(shown_set, IsAnonymous(user_id), settings,
                                final_feed_size,
                                CatalogAnswers(popular_ids, recent_ids,
                                               recent_pool), mono)
    /\ final_ids' = interleave_buckets(slices', final_feed_size)
    /\ pc' = "interleaved"
    /\ UNCHANGED <<user_id, fs_client, n, final_feed_size, shown_set,
                   product_metadata, feed, fs_calls, raised, history,
                   settings, inp, out>>

\* The candidate queries the handler makes: query_popular_ids (line 335),
\* query_recent_ids (line 336), query_recent_ids for the fresh bucket
\* (line 412).  query_top_by_category (line 405) is never called, its loop
\* running over the empty top_categories.
CandidateCalls ==
    {"query_popular_ids", "query_recent_ids", "query_recent_ids_fresh"}

\* A candidate query of lines 335-412 raises: nothing catches the
\* exception and the request fails.  call is the query that raises.
CatalogFails(call) ==
    /\ pc = "history_loaded"
    /\ pc' = "failed"
    /\ raised' = call
    /\ UNCHANGED <<user_id, fs_client, n, final_feed_size, shown_set, slices,
                   final_ids, product_metadata, feed, fs_calls, history,
                   settings, inp, out>>

\* Lines 436-438.  fails: whether the history write raises.
RecordShown(fails) ==
    /\ pc = "interleaved"
    /\ IF IsAnonymous(user_id)
       THEN UNCHANGED <<history, fs_calls>>
       ELSE /\ history' = add_shown_items_fs(fs_client, fails,
                                             history, user_id, final_ids)
            /\ fs_calls' = Append(fs_calls, "add_shown")
    /\ pc' = "recorded"
    /\ UNCHANGED <<user_id, fs_client, n, final_feed_size, shown_set, slices,
                   final_ids, product_metadata, feed, raised, settings,
                   inp, out>>

\* Lines 441-463: hydrate and answer, or fail when the primary store raises.
Hydrate(pg, bq) ==
    /\ pc = "recorded"
    /\ LET joined == join_product_metadata(pg, bq, final_ids)
       IN  IF joined.raised
           THEN /\ pc' = "failed"
                /\ raised' = "join_product_metadata"
                /\ product_metadata' = <<>>
                /\ feed' = <<>>
           ELSE /\ pc' = "done"
                /\ raised' = ""
                /\ product_metadata' = joined.value
                /\ feed' = BuildItems(final_ids, joined.value)
    /\ UNCHANGED <<user_id, fs_client, n, final_feed_size, shown_set, slices,
                   final_ids, fs_calls, history, settings, inp, out>>

\* The response or the error has been sent; the handler's locals are gone.
Return ==
    /\ pc \in {"done", "failed"}
    /\ pc' = "idle"
    /\ user_id' = NoUser
    /\ fs_client' = "none"
    /\ n' = None
    /\ final_feed_size' = feed_default_size
    /\ shown_set' = {}
    /\ slices' = NoSlices
    /\ final_ids' = <<>>
    /\ product_metadata' = <<>>
    /\ feed' = <<>>
    /\ fs_calls' = <<>>
    /\ raised' = ""
    /\ UNCHANGED <<history, settings, inp, out>>

\* The stores as far as a lookup of ids can tell them apart: the primary
\* store is down, or it holds none of the ids, all of them in the order of
\* the lookup or in the opposite order, or all but one in the opposite
\* order.
PgStates(ids) ==
    {[ok |-> FALSE, table |-> <<>>]} \cup
    [ok : {TRUE},
     table : {<<>>, ids, Reverse(ids)}
                 \cup {Reverse(Unseen(ids, {x})) : x \in Range(ids)}]
BqOff == [configured |-> FALSE, available |-> FALSE, table |-> {}]
BqStates(ids) ==
    {BqOff, [configured |-> TRUE, available |-> FALSE, table |-> {}]}
    \cup [configured : {TRUE}, available : {TRUE}, table : {{}, Range(ids)}]

\* The secondary store is looked at only when the primary one answers with
\* no row.
HydrateInputs(ids) ==
    {<<pg, BqOff>> : pg \in PgStates(ids)} \cup
    {<<[ok |-> TRUE, table |-> <<>>], bq>> : bq \in BqStates(ids)}

\* The Monolith call is made only on line 349.
MonolithInputs(shown, is_anonymous, popular_ids, recent_ids) ==
    LET candidates_unseen == CandidatesUnseen(shown, popular_ids, recent_ids)
    IN  IF UsesMonolith(settings.monolith_enabled, is_anonymous,
                        candidates_unseen)
        THEN MonolithOutcomes(PySlice(candidates_unseen, 0,
                                      MonolithCandidateLimit))
        ELSE {[kind |-> "scores", scores |-> <<>>]}

Next ==
    \/ \E u \in Users, nn \in NValues, client \in {"none", "client"},
          fails \in BOOLEAN :
          LoadHistory(u, nn, client, fails)
    \/ \E k \in 0..NumIds, recent_ids \in NewestAnswers,
          recent_pool \in NewestAnswers :
          \E mono \in MonolithInputs(shown_set, IsAnonymous(user_id),
                                     CanonIds(k), recent_ids) :
              Assemble(CanonIds(k), recent_ids, recent_pool, mono)
    \/ \E call \in CandidateCalls : CatalogFails(call)
    \/ \E fails \in BOOLEAN : RecordShown(fails)
    \/ \E io \in HydrateInputs(final_ids) : Hydrate(io[1], io[2])
    \/ Return

Spec == Init /\ [][Next]_vars

-----------------------------------------------------------------------------
(* Calls of the library functions on their own.  The request handler stays  *)
(* idle; inp holds the arguments and out the results.                       *)

Parked ==
    /\ PipeInit
    /\ settings = [monolith_enabled |-> FALSE, bucket_ratios |-> DefaultRatios]

Start == [stage |-> "start"]

\* [(pid, score), ...] with one score for every id
WithScore(ids, score) == [i \in DOMAIN ids |-> <<ids[i], score>>]

-----------------------------------------------------------------------------
(* slice_buckets_by_ratio followed by interleave_buckets *)

\* The example of the interleave cadence: p1..p10, c1..c5, f1..f3.
CadenceInput ==
    [fn |-> "diversify",
     personal |-> WithScore(<<"p1", "p2", "p3", "p4", "p5",
                              "p6", "p7", "p8", "p9", "p10">>, 0),
     category |-> WithScore(<<"c1", "c2", "c3", "c4", "c5">>, 0),
     fresh |-> WithScore(<<"f1", "f2", "f3">>, 1),
     final_feed_size |-> 9,
     ratios |-> [personal |-> 60, category |-> 30, fresh |-> 10]]

\* Ratios of slicer calls: the default, the cadence example's, an even
\* split of the non-personal half, and one whose slots exceed the size.
SlicerRatios ==
    {DefaultRatios,
     [personal |-> 60, category |-> 30, fresh |-> 10],
     [personal |-> 50, category |-> 25, fresh |-> 25],
     [personal |-> 100, category |-> 50, fresh |-> 100]}

\* Buckets as the handler builds them: duplicate-free, stub-scored personal
\* and category buckets, freshness-scored fresh bucket.  Ids are opaque to
\* the slicer and the interleaver, so the personal bucket is taken in
\* catalog order.
SlicerInputs ==
    {[fn |-> "diversify",
      personal |-> WithScore(CanonIds(k), 0),
      category |-> WithScore(c, 0),
      fresh |-> WithScore(f, 1),
      final_feed_size |-> size,
      ratios |-> r] :
        k \in 0..NumIds, c \in SeqsNoDup(Ids, MaxBucketLen),
        f \in SeqsNoDup(Ids, MaxBucketLen), size \in 0..MaxSize,
        r \in SlicerRatios}

\* Calls over a catalog of WideIds products, long enough for a size that
\* gives every bucket a slot under ratios summing to one: the personal
\* bucket a run of the catalog from its start, the category and fresh
\* buckets runs of at most MaxBucketLen products from anywhere in it, so
\* that they lie inside the personal bucket, overlap it or lie outside;
\* sizes from -1, the size an unvalidated n = -1 hands down.
WideIds == NumIds + 2

WideRatios ==
    {[personal |-> 60, category |-> 20, fresh |-> 20],
     [personal |-> 50, category |-> 25, fresh |-> 25]}

IdRuns ==
    {[i \in 1..len |-> IdNames[start + i - 1]] :
        <<start, len>> \in {r \in (1..WideIds) \X (0..MaxBucketLen) :
                               r[1] + r[2] - 1 <= WideIds}}

WideSlicerInputs ==
    {[fn |-> "diversify",
      personal |-> WithScore(CanonIds(k), 0),
      category |-> WithScore(c, 0),
      fresh |-> WithScore(f, 1),
      final_feed_size |-> size,
      ratios |-> r] :
        k \in 0..WideIds, c \in IdRuns, f \in IdRuns,
        size \in -1..(MaxSize + 1), r \in WideRatios}

InitSlicer ==
    /\ Parked
    /\ inp \in SlicerInputs \cup WideSlicerInputs \cup {CadenceInput}
    /\ out = Start

CallSlice ==
    /\ inp.fn = "diversify"
    /\ out.stage = "start"
    /\ out' = [stage |-> "sliced",
               slices |-> slice_buckets_by_ratio(inp.personal, inp.category,
                                                 inp.fresh,
                                                 inp.final_feed_size,
                                                 inp.ratios)]
    /\ UNCHANGED <<pipeVars, inp>>

\* final_feed is the local final_feed when line 70 is passed, final the
\* list returned.
CallInterleave ==
    /\ inp.fn = "diversify"
    /\ out.stage = "sliced"
    /\ out' = [stage |-> "interleaved",
               slices |-> out.slices,
               final_feed |-> Pad(CyclicWalk(InterleaveStart(out.slices),
                                             inp.final_feed_size),
                                  inp.final_feed_size).final_feed,
               final |-> interleave_buckets(out.slices, inp.final_feed_size)]
    /\ UNCHANGED <<pipeVars, inp>>

NextSlicer == CallSlice \/ CallInterleave

SpecSlicer == InitSlicer /\ [][NextSlicer]_vars

-----------------------------------------------------------------------------
(* interleave_buckets, one pass of its while loop at a time *)

\* Walks long enough to go through the pattern twice: a personal slice of
\* up to WalkLen ids in catalog order, and sizes up to WalkSize.
WalkLen == NumIds + 4
WalkSize == MaxSize + 6

InitWalk ==
    /\ Parked
    /\ inp \in [fn : {"walk"},
                slices : [personal : {CanonIds(k) : k \in 0..WalkLen},
                          category : SeqsNoDup(Ids, MaxBucketLen),
                          fresh : RecentAnswers],
                final_feed_size : -1..WalkSize]
    /\ out = Start

\* Lines 42-51
StartWalk ==
    /\ inp.fn = "walk"
    /\ out.stage = "start"
    /\ out' = [stage |-> "walking",
               queues |-> InterleaveStart(inp.slices).queues,
               final_feed |-> InterleaveStart(inp.slices).final_feed,
               i |-> InterleaveStart(inp.slices).i]
    /\ UNCHANGED <<pipeVars, inp>>

\* Lines 52-62: one pass of the loop
WalkOne ==
    /\ inp.fn = "walk"
    /\ out.stage = "walking"
    /\ Len(out.final_feed) < inp.final_feed_size
    /\ AnyQueue(out.queues)
    /\ out' = WalkStep(out)
    /\ UNCHANGED <<pipeVars, inp>>

\* Lines 64-82: the loop has ended; pad, de-duplicate and return.  walked
\* and left are final_feed and the queues at the end of the loop, padded
\* is final_feed after the padding.
FinishWalk ==
    /\ inp.fn = "walk"
    /\ out.stage = "walking"
    /\ ~(Len(out.final_feed) < inp.final_feed_size /\ AnyQueue(out.queues))
    /\ out' = [stage |-> "returned",
               walked |-> out.final_feed,
               left |-> out.queues,
               padded |-> Pad(out, inp.final_feed_size).final_feed,
               final |-> Dedupe(Pad(out, inp.final_feed_size).final_feed,
                                <<>>, inp.final_feed_size)]
    /\ UNCHANGED <<pipeVars, inp>>

NextWalk == StartWalk \/ WalkOne \/ FinishWalk

SpecWalk == InitWalk /\ [][NextWalk]_vars

-----------------------------------------------------------------------------
(* filter_seen_pairs, applied once and then again to its own result *)

PairLists ==
    UNION {[1..m -> Ids \X ScoreVals] : m \in 0..MaxBucketLen}

InitFilter ==
    /\ Parked
    /\ inp \in [fn : {"filter"}, bucket_list : PairLists, shown_set : SUBSET Ids]
    /\ out = Start

CallFilter ==
    /\ inp.fn = "filter"
    /\ out.stage = "start"
    /\ out' = [stage |-> "once",
               once |-> filter_seen_pairs(inp.bucket_list, inp.shown_set)]
    /\ UNCHANGED <<pipeVars, inp>>

CallFilterAgain ==
    /\ inp.fn = "filter"
    /\ out.stage = "once"
    /\ out' = [stage |-> "twice",
               once |-> out.once,
               twice |-> filter_seen_pairs(out.once, inp.shown_set)]
    /\ UNCHANGED <<pipeVars, inp>>

NextFilter == CallFilter \/ CallFilterAgain

SpecFilter == InitFilter /\ [][NextFilter]_vars

-----------------------------------------------------------------------------
(* score_with_model_or_fallback with a pluggable scorer *)

\* Score maps: duplicate-free keys, any scores.
ScoreMaps ==
    UNION {{[i \in DOMAIN keys |-> <<keys[i], sc[i]>>] :
                sc \in [DOMAIN keys -> ScoreVals]} :
           keys \in SeqsNoDup(Ids, MaxBucketLen)}

ScorerOutcomes(features) ==
    {[kind |-> k, scores |-> <<>>] : k \in {"raise", "none", "empty"}}
    \cup {[kind |-> k, scores |-> WithScore(features, 1)] :
             k \in {"scores", "bad_scores"}}

InitScoring ==
    /\ Parked
    /\ \E features \in SeqsNoDup(Ids, MaxBucketLen) :
       \E scorer \in ScorerOutcomes(features) :
       \E fallback \in {None} \cup {Some(m) : m \in ScoreMaps} :
           inp = [fn |-> "score", features |-> features, scorer |-> scorer,
                  fallback_scores |-> fallback]
    /\ out = Start

CallScore ==
    /\ inp.fn = "score"
    /\ out.stage = "start"
    /\ out' = [stage |-> "returned",
               result |-> ScoreWith(inp.scorer, inp.features,
                                    inp.fallback_scores)]
    /\ UNCHANGED <<pipeVars, inp>>

NextScoring == CallScore

SpecScoring == InitScoring /\ [][NextScoring]_vars

-----------------------------------------------------------------------------
(* join_product_metadata *)

AllPgStates ==
    {[ok |-> FALSE, table |-> <<>>]}
    \cup [ok : {TRUE}, table : SeqsNoDup(Ids, NumIds)]
AllBqStates ==
    {BqOff, [configured |-> TRUE, available |-> FALSE, table |-> {}]}
    \cup [configured : {TRUE}, available : {TRUE}, table : SUBSET Ids]

InitHydration ==
    /\ Parked
    /\ inp \in [fn : {"join"}, prod_ids : SeqsNoDup(Ids, MaxBucketLen),
                pg : AllPgStates, bq : AllBqStates]
    /\ out = Start

CallJoin ==
    /\ inp.fn = "join"
    /\ out.stage = "start"
    /\ out' = [stage |-> "returned",
               result |-> join_product_metadata(inp.pg, inp.bq, inp.prod_ids)]
    /\ UNCHANGED <<pipeVars, inp>>

NextHydration == CallJoin

SpecHydration == InitHydration /\ [][NextHydration]_vars

-----------------------------------------------------------------------------
(* The three buckets get_diverse_feed hands to slice_buckets_by_ratio *)

InitBuckets ==
    /\ Parked
    /\ inp \in [fn : {"buckets"},
                shown_set : SUBSET Ids,
                is_anonymous : BOOLEAN,
                monolith_enabled : BOOLEAN,
                monolith : MonolithBehaviours,
                popular_ids : {CanonIds(k) : k \in 0..NumIds},
                recent_ids : RecentAnswers,
                recent_pool : RecentAnswers]
    /\ out = Start

\* Lines 335-422
CallBuckets ==
    /\ inp.fn = "buckets"
    /\ out.stage = "start"
    /\ LET candidates_unseen ==
               CandidatesUnseen(inp.shown_set, inp.popular_ids, inp.recent_ids)
           mono == MonolithAnswer(inp.monolith,
                                  PySlice(candidates_unseen, 0,
                                          MonolithCandidateLimit))
       IN  out' = [stage |-> "buckets",
                   personal |-> PersonalBucket(inp.shown_set, inp.is_anonymous,
                                               inp.monolith_enabled,
                                               inp.popular_ids, inp.recent_ids,
                                               mono),
                   category |-> CategoryBucket(inp.shown_set),
                   fresh |-> FreshBucket(inp.shown_set, inp.recent_pool)]
    /\ UNCHANGED <<pipeVars, inp>>

NextBuckets == CallBuckets

SpecBuckets == InitBuckets /\ [][NextBuckets]_vars

-----------------------------------------------------------------------------
(* Two get_diverse_feed requests run against the same catalog, the same     *)
(* configuration and the same requested size                                *)

\* One whole request, lines 319-463.
\*   req  [user_id, n]
\*   fs   [client, read_fails, write_fails, history]: the history store
\*   env  [settings, popular_ids, recent_ids, recent_pool, monolith, pg, bq]
\* The result is the outcome, the shown-set the request read, the returned
\* feed, and the shown history of the user afterwards.
RunRequest(req, fs, env) ==
    LET size == FinalFeedSize(req.n)
        is_anonymous == IsAnonymous(req.user_id)
        shown == IF is_anonymous THEN {}
                 ELSE get_shown_set_fs(fs.client, fs.read_fails, fs.history,
                                       req.user_id)
        candidates_unseen ==
            CandidatesUnseen(shown, env.popular_ids, env.recent_ids)
        mono == MonolithAnswer(env.monolith,
                               PySlice(candidates_unseen, 0,
                                       MonolithCandidateLimit))
        ids == interleave_buckets(
                   AssembleSlices(shown, is_anonymous, env.settings, size,
                                  CatalogAnswers(env.popular_ids,
                                                 env.recent_ids,
                                                 env.recent_pool), mono),
                   size)
        after == IF is_anonymous THEN fs.history
                 ELSE add_shown_items_fs(fs.client, fs.write_fails,
                                         fs.history, req.user_id, ids)
        joined == join_product_metadata(env.pg, env.bq, ids)
    IN  [failed |-> joined.raised,
         shown |-> shown,
         feed |-> IF joined.raised THEN <<>>
                  ELSE BuildItems(ids, joined.value),
         shown_after |-> after[req.user_id]]

\* A working history store holding no shown id of any user.
FreshStore ==
    [client |-> "client", read_fails |-> FALSE, write_fails |-> FALSE,
     history |-> [u \in Users |-> {}]]

\* History stores in an outage, the registered user having shown ids
\* stored: no client could be built, or every call of the client raises.
OutageStores ==
    {[client |-> c.client, read_fails |-> c.fails, write_fails |-> c.fails,
      history |-> [u \in Users |-> shown]] :
        c \in {[client |-> "none", fails |-> FALSE],
               [client |-> "client", fails |-> TRUE]},
        shown \in {{IdNames[1]}, Ids}}

\* The catalog as the primary store holds it: every product, or every
\* product but the first, or the store is down.
ComparePgStates ==
    {[ok |-> FALSE, table |-> <<>>],
     [ok |-> TRUE, table |-> CanonIds(NumIds)],
     [ok |-> TRUE, table |-> Tail(CanonIds(NumIds))]}

CompareEnvs ==
    [settings : [monolith_enabled : BOOLEAN, bucket_ratios : {DefaultRatios}],
     popular_ids : {CanonIds(k) : k \in 0..NumIds},
     recent_ids : RecentAnswers,
     recent_pool : RecentAnswers,
     monolith : MonolithBehaviours,
     pg : ComparePgStates,
     bq : {BqOff}]

\* The first request is the anonymous one or one of the registered user
\* during an outage of the history store; the second is one of the
\* registered user with an empty shown-set.
InitCompare ==
    /\ Parked
    /\ \E nn \in NValues, env \in CompareEnvs :
       \E first \in {[user_id |-> "anonymous", fs |-> FreshStore]}
                    \cup [user_id : {"u1"}, fs : OutageStores] :
           inp = [fn |-> "compare", n |-> nn, env |-> env,
                  first |-> first,
                  second |-> [user_id |-> "u1", fs |-> FreshStore]]
    /\ out = Start

CallFirst ==
    /\ inp.fn = "compare"
    /\ out.stage = "start"
    /\ out' = [stage |-> "first",
               first |-> RunRequest([user_id |-> inp.first.user_id,
                                     n |-> inp.n],
                                    inp.first.fs, inp.env)]
    /\ UNCHANGED <<pipeVars, inp>>

CallSecond ==
    /\ inp.fn = "compare"
    /\ out.stage = "first"
    /\ out' = [stage |-> "both",
               first |-> out.first,
               second |-> RunRequest([user_id |-> inp.second.user_id,
                                      n |-> inp.n],
                                     inp.second.fs, inp.env)]
    /\ UNCHANGED <<pipeVars, inp>>

NextCompare == CallFirst \/ CallSecond

SpecCompare == InitCompare /\ [][NextCompare]_vars

-----------------------------------------------------------------------------
(* Two get_diverse_feed requests of the registered user handled at the same *)
(* time by two workers, the history store working and the catalog unchanged *)

Requests == {1, 2}

\* Lines 335-434 of a request that read the shown-set shown.
InterleavedIds(req, shown, env) ==
    LET size == FinalFeedSize(req.n)
        is_anonymous == IsAnonymous(req.user_id)
        candidates_unseen ==
            CandidatesUnseen(shown, env.popular_ids, env.recent_ids)
        mono == MonolithAnswer(env.monolith,
                               PySlice(candidates_unseen, 0,
                                       MonolithCandidateLimit))
    IN  interleave_buckets(
            AssembleSlices(shown, is_anonymous, env.settings, size,
                           CatalogAnswers(env.popular_ids, env.recent_ids,
                                          env.recent_pool), mono),
            size)

\* A request that has not started.  after_record tells whether the other
\* request had recorded its shown items when this one read the shown-set.
NewRequest ==
    [pc |-> "start", shown_set |-> {}, final_ids |-> <<>>, feed |-> <<>>,
     after_record |-> FALSE]

\* The Monolith server matters only to a handler configured to call it.
ConcEnvs ==
    {env \in [settings : [monolith_enabled : BOOLEAN,
                          bucket_ratios : {DefaultRatios}],
              popular_ids : {CanonIds(k) : k \in 0..NumIds},
              recent_ids : NewestAnswers,
              recent_pool : NewestAnswers,
              monolith : MonolithBehaviours,
              pg : {pg \in ComparePgStates : pg.ok},
              bq : {BqOff}] :
        env.settings.monolith_enabled \/ env.monolith.kind = "raise"}

InitConc ==
    /\ Parked
    /\ inp \in [fn : {"concurrent"}, user_id : {"u1"}, n : NValues,
                env : ConcEnvs]
    /\ out = [stage |-> "serving", history |-> FreshStore.history,
              reqs |-> [r \in Requests |-> NewRequest]]

\* Line 332
ConcRead(r) ==
    /\ inp.fn = "concurrent"
    /\ out.reqs[r].pc = "start"
    /\ out' = [out EXCEPT
                 !.reqs[r].pc = "history_loaded",
                 !.reqs[r].shown_set =
                     get_shown_set_fs("client", FALSE, out.history,
                                      inp.user_id),
                 !.reqs[r].after_record =
                     \E q \in Requests \ {r} :
                         out.reqs[q].pc \in {"recorded", "done"}]
    /\ UNCHANGED <<pipeVars, inp>>

\* Lines 335-434
ConcAssemble(r) ==
    /\ inp.fn = "concurrent"
    /\ out.reqs[r].pc = "history_loaded"
    /\ out' = [out EXCEPT
                 !.reqs[r].pc = "interleaved",
                 !.reqs[r].final_ids =
                     InterleavedIds([user_id |-> inp.user_id, n |-> inp.n],
                                    out.reqs[r].shown_set, inp.env)]
    /\ UNCHANGED <<pipeVars, inp>>

\* Lines 437-438
ConcRecord(r) ==
    /\ inp.fn = "concurrent"
    /\ out.reqs[r].pc = "interleaved"
    /\ out' = [out EXCEPT
                 !.reqs[r].pc = "recorded",
                 !.history =
                     add_shown_items_fs("client", FALSE, out.history,
                                        inp.user_id, out.reqs[r].final_ids)]
    /\ UNCHANGED <<pipeVars, inp>>

\* Lines 441-463
ConcRespond(r) ==
    /\ inp.fn = "concurrent"
    /\ out.reqs[r].pc = "recorded"
    /\ out' = [out EXCEPT
                 !.reqs[r].pc = "done",
                 !.reqs[r].feed =
                     BuildItems(out.reqs[r].final_ids,
                                join_product_metadata(
                                    inp.env.pg, inp.env.bq,
                                    out.reqs[r].final_ids).value)]
    /\ UNCHANGED <<pipeVars, inp>>

NextConc ==
    \E r \in Requests :
        ConcRead(r) \/ ConcAssemble(r) \/ ConcRecord(r) \/ ConcRespond(r)

SpecConc == InitConc /\ [][NextConc]_vars

-----------------------------------------------------------------------------
(* Requests of the registered user that keep arriving, the history store    *)
(* working.  The handler is a plain def run on the server's thread pool, so *)
(* up to two requests are in progress at a time, their steps interleaved.   *)
(* inp.env holds the answers of the catalog and of the Monolith server; the *)
(* primary store may go down and lose a row between two hydrations.         *)

\* out.history   the history store
\* out.returned  the ids of the feeds returned so far
\* out.reqs[r]   the request in progress on thread r: its position, and
\*               as long as the handler uses them the shown-set it read
\*               and its interleaved ids; its feed; and before, the ids
\*               that had been returned when it arrived
\* The handler scores with the stub (Monolith disabled, the server not
\* called) or with the scores of a Monolith server, and at most one product
\* enters or leaves the last 24 hours between the two recent queries.
RepeatEnvs ==
    {env \in [settings : [monolith_enabled : BOOLEAN,
                          bucket_ratios : {DefaultRatios}],
              popular_ids : {CanonIds(k) : k \in 0..NumIds},
              recent_ids : NewestAnswers,
              recent_pool : NewestAnswers,
              monolith : MonolithBehaviours] :
        /\ env.settings.monolith_enabled <=> env.monolith.kind = "scores"
        /\ Len(env.recent_pool) - Len(env.recent_ids) \in {-1, 0, 1}}

IdleRequest ==
    [pc |-> "start", shown_set |-> {}, final_ids |-> <<>>,
     feed |-> <<>>, before |-> {}]

InitRepeat ==
    /\ Parked
    /\ inp \in [fn : {"repeat"}, env : RepeatEnvs]
    /\ out = [stage |-> "serving", history |-> FreshStore.history,
              returned |-> {}, reqs |-> [r \in Requests |-> IdleRequest]]

\* The sizes asked for: the default or an explicit positive n.
RepeatSizes == {None} \cup {Some(k) : k \in 1..MaxN}

\* A request takes the free thread of the lowest number.
FreeThread(r) ==
    /\ out.reqs[r].pc \in {"start", "done"}
    /\ \A q \in Requests : q < r => out.reqs[q].pc \notin {"start", "done"}

\* Line 319: a request arrives on a free thread; before is the set of ids
\* that had been returned when it arrived.
RepeatArrive(r) ==
    /\ inp.fn = "repeat"
    /\ FreeThread(r)
    /\ out' = [out EXCEPT
                 !.reqs[r] = [pc |-> "arrived", shown_set |-> {},
                              final_ids |-> <<>>, feed |-> <<>>,
                              before |-> out.returned]]
    /\ UNCHANGED <<pipeVars, inp>>

\* Lines 321-332: the clients are built and the shown-set is read.
RepeatRead(r) ==
    /\ inp.fn = "repeat"
    /\ out.reqs[r].pc = "arrived"
    /\ out' = [out EXCEPT
                 !.reqs[r].pc = "history_loaded",
                 !.reqs[r].shown_set =
                     get_shown_set_fs("client", FALSE, out.history, "u1")]
    /\ UNCHANGED <<pipeVars, inp>>

\* Lines 335-434 of a request of size nn; the shown-set is not used after
\* them.
RepeatAssemble(r, nn) ==
    /\ inp.fn = "repeat"
    /\ out.reqs[r].pc = "history_loaded"
    /\ out' = [out EXCEPT
                 !.reqs[r].pc = "interleaved",
                 !.reqs[r].shown_set = {},
                 !.reqs[r].final_ids =
                     InterleavedIds([user_id |-> "u1", n |-> nn],
                                    out.reqs[r].shown_set, inp.env)]
    /\ UNCHANGED <<pipeVars, inp>>

\* Lines 437-438
RepeatRecord(r) ==
    /\ inp.fn = "repeat"
    /\ out.reqs[r].pc = "interleaved"
    /\ out' = [out EXCEPT
                 !.reqs[r].pc = "recorded",
                 !.history =
                     add_shown_items_fs("client", FALSE, out.history, "u1",
                                        out.reqs[r].final_ids)]
    /\ UNCHANGED <<pipeVars, inp>>

\* Lines 441-463: the feed is returned, or the request fails with no feed.
RepeatRespond(r, pg) ==
    /\ inp.fn = "repeat"
    /\ out.reqs[r].pc = "recorded"
    /\ LET joined == join_product_metadata(pg, BqOff, out.reqs[r].final_ids)
           items == IF joined.raised THEN <<>>
                    ELSE BuildItems(out.reqs[r].final_ids, joined.value)
       IN  out' = [out EXCEPT !.reqs[r].pc = "done",
                              !.reqs[r].final_ids = <<>>,
                              !.reqs[r].feed = items,
                              !.returned = @ \cup Range(items)]
    /\ UNCHANGED <<pipeVars, inp>>

NextRepeat ==
    \E r \in Requests :
        \/ RepeatArrive(r)
        \/ RepeatRead(r)
        \/ \E nn \in RepeatSizes : RepeatAssemble(r, nn)
        \/ RepeatRecord(r)
        \/ \E pg \in ComparePgStates : RepeatRespond(r, pg)

SpecRepeat == InitRepeat /\ [][NextRepeat]_vars

-----------------------------------------------------------------------------
(* app/main.py: like_product and unlike_product, with the products table   *)
(* and the like documents they write.  out holds the table (like_count by  *)
(* product_id), the like documents as (user_id, product_id) pairs, the     *)
(* calls in progress and the last response.                                *)

MaxLikeCount == 2    \* largest like_count a like call is made at

\* product_ids with a row in the products table
LikeCatalog == {"a"}

\* product_ids of like requests: the catalog and an id without a row
LikeRequestIds == LikeCatalog \cup {"c"}

LikeUsers == {"anonymous", "u1", "u2"}

\* The products table during one call: reachable, or connect / execute
\* raises.
PgOutcomes == {"ok", "raises"}

\* The like-document store during one call: reachable, no client
\* (get_firestore_client_safe returns None), or set / delete raises.
FsOutcomes == {"ok", "none", "raises"}

\* LikeResponse(success, like_count)
LikeResponse(success, like_count) ==
    [success |-> success, like_count |-> like_count]

NoResponse == LikeResponse(TRUE, 0)

\* UPDATE products SET like_count = like_count + 1 WHERE product_id = %s
\* RETURNING like_count, committed; result[0] if a row matched, else 0.
increment_like_count(table, product_id) ==
    IF product_id \in DOMAIN table
    THEN [table |-> [table EXCEPT ![product_id] = @ + 1],
          result |-> table[product_id] + 1]
    ELSE [table |-> table, result |-> 0]

\* UPDATE products SET like_count = GREATEST(like_count - 1, 0) ...
decrement_like_count(table, product_id) ==
    IF product_id \in DOMAIN table
    THEN [table |-> [table EXCEPT ![product_id] = Max(@ - 1, 0)],
          result |-> Max(table[product_id] - 1, 0)]
    ELSE [table |-> table, result |-> 0]

\* record_user_like_firestore(fs_client, user_id, product_id, liked): the
\* like documents afterwards.
record_user_like_firestore(client, docs, user, product_id, liked) ==
    IF client = "none" THEN docs
    ELSE IF liked THEN docs \cup {<<user, product_id>>}
    ELSE docs \ {<<user, product_id>>}

\* The handlers are plain def functions run on the server's thread pool:
\* up to two calls are in progress at a time.
LikeCalls == {1, 2}

\* A thread with no call in progress.
IdleCall ==
    [pc |-> "idle", fn |-> "none", user_id |-> NoUser, product_id |-> "",
     new_like_count |-> 0, count_delta |-> 0]

\* What the call that was answered last did to the stores: the change of
\* the product's like_count it committed, and whether its write changed the
\* like documents.
NoEffect == [count_delta |-> 0, doc_changed |-> FALSE]

\* The UPDATE of the call: increment_like_count for /like (line 95),
\* decrement_like_count for /unlike (line 132).
UpdateLikeCount(fn, table, product_id) ==
    IF fn = "like" THEN increment_like_count(table, product_id)
    ELSE decrement_like_count(table, product_id)

\* Lines 84-95 and 121-132: the call of user on thread c arrives.  An
\* anonymous call is answered at once; a call whose UPDATE raises is
\* answered by the except branch; otherwise the UPDATE is committed and the
\* call goes on to the like document.
BeginCall(c, fn, user, product_id, pg) ==
    /\ inp.fn = "likes"
    /\ out.calls[c].pc = "idle"
    /\ \A q \in LikeCalls : q < c => out.calls[q].pc # "idle"
    /\ IF IsAnonymous(user) \/ pg = "raises"
       THEN out' = [out EXCEPT !.clean = FALSE,
                               !.response = LikeResponse(FALSE, 0),
                               !.effect = NoEffect]
       ELSE LET upd == UpdateLikeCount(fn, out.products, product_id)
                old == IF product_id \in DOMAIN out.products
                       THEN out.products[product_id] ELSE 0
            IN  out' = [out EXCEPT
                          !.products = upd.table,
                          !.calls[c] =
                              [pc |-> "committed", fn |-> fn,
                               user_id |-> user, product_id |-> product_id,
                               new_like_count |-> upd.result,
                               count_delta |-> upd.result - old]]
    /\ UNCHANGED <<pipeVars, inp>>

\* Lines 98-111 and 135-148: the like document is written or deleted and
\* the call answers, or the write raises and the except branch answers.
FinishCall(c, fs) ==
    /\ inp.fn = "likes"
    /\ out.calls[c].pc = "committed"
    /\ LET call == out.calls[c]
           docs == record_user_like_firestore(fs, out.likes, call.user_id,
                                              call.product_id,
                                              call.fn = "like")
       IN  IF fs = "raises"
           THEN out' = [out EXCEPT
                          !.clean = FALSE,
                          !.calls[c] = IdleCall,
                          !.response = LikeResponse(FALSE, 0),
                          !.effect = [count_delta |-> call.count_delta,
                                      doc_changed |-> FALSE]]
           ELSE out' = [out EXCEPT
                          !.likes = docs,
                          !.clean = out.clean /\ fs # "none",
                          !.calls[c] = IdleCall,
                          !.response = LikeResponse(TRUE,
                                                    call.new_like_count),
                          !.effect = [count_delta |-> call.count_delta,
                                      doc_changed |-> docs # out.likes]]
    /\ UNCHANGED <<pipeVars, inp>>

InitLikes ==
    /\ Parked
    /\ inp = [fn |-> "likes"]
    /\ out = [stage |-> "serving",
              products |-> [p \in LikeCatalog |-> 0],
              likes |-> {},
              clean |-> TRUE,
              calls |-> [c \in LikeCalls |-> IdleCall],
              response |-> NoResponse,
              effect |-> NoEffect]

\* POST /like
LikeProduct ==
    \E c \in LikeCalls, user \in LikeUsers, product_id \in LikeRequestIds,
       pg \in PgOutcomes :
        /\ product_id \in DOMAIN out.products
              => out.products[product_id] < MaxLikeCount
        /\ BeginCall(c, "like", user, product_id, pg)

\* POST /unlike
UnlikeProduct ==
    \E c \in LikeCalls, user \in LikeUsers, product_id \in LikeRequestIds,
       pg \in PgOutcomes :
        BeginCall(c, "unlike", user, product_id, pg)

\* The second half of a call of either endpoint
RecordLike ==
    \E c \in LikeCalls, fs \in FsOutcomes : FinishCall(c, fs)

NextLikes == LikeProduct \/ UnlikeProduct \/ RecordLike

SpecLikes == InitLikes /\ [][NextLikes]_vars

-----------------------------------------------------------------------------
(* Properties of get_diverse_feed (specification Spec) *)

\* C1: the id list returned by interleave_buckets and the feed returned by
\* get_diverse_feed contain no id more than once, also when an id occurs in
\* several slices.
C1_NoDuplicates == IsDupFree(final_ids) /\ IsDupFree(feed)

\* A feed of several items was returned although an id of it was both in
\* the personal and in the fresh slice.
C1_Witness ==
    /\ pc = "done"
    /\ Len(feed) >= 2
    /\ \E id \in Range(slices.personal) \cap Range(slices.fresh) :
          id \in Range(feed)

\* C2: a request with an explicitly supplied size n >= 0, n = 0 included,
\* returns a feed of at most n items.
C2_SizeBound ==
    (pc = "done" /\ n # None /\ n[1] >= 0) => Len(feed) <= n[1]

\* C4: for a non-anonymous user no id of the shown-set that was read
\* appears among the interleaved ids or in the returned feed.
C4_HistoryExclusion ==
    user_id \in Users \ {"anonymous"} =>
        /\ Range(final_ids) \cap shown_set = {}
        /\ Range(feed) \cap shown_set = {}

\* A registered user with a non-empty shown-set got a non-empty feed while
\* Monolith scoring was enabled.
C4_Witness ==
    /\ pc = "done"
    /\ user_id = "u1"
    /\ shown_set # {}
    /\ feed # <<>>
    /\ settings.monolith_enabled

\* C5: a request of user "anonymous" makes no history-store call, works
\* with an empty shown-set, and no step of it changes the history store.
C5_AnonymousBypass ==
    /\ [](user_id = "anonymous" => fs_calls = <<>> /\ shown_set = {})
    /\ [][user_id' = "anonymous" => history' = history]_vars

\* An anonymous request returned an id that the store holds as shown under
\* the id "anonymous".
C5_Witness ==
    /\ pc = "done"
    /\ user_id = "anonymous"
    /\ Range(feed) \cap history["anonymous"] # {}

-----------------------------------------------------------------------------
(* Properties of the slicer and the interleaver (specification SpecSlicer) *)

BucketIds(bucket) == {bucket[i][1] : i \in DOMAIN bucket}

\* C3 as stated: whenever the three buckets together hold at least
\* final_feed_size distinct ids, slicing and interleaving return exactly
\* final_feed_size ids.
C3_ExactSize ==
    (/\ out.stage = "interleaved"
     /\ Cardinality(BucketIds(inp.personal) \cup BucketIds(inp.category)
                        \cup BucketIds(inp.fresh)) >= inp.final_feed_size)
    => Len(out.final) = inp.final_feed_size

SlicesLen(sl) == Len(sl.personal) + Len(sl.category) + Len(sl.fresh)

\* s without the repeats of its ids, first occurrences kept in order
RECURSIVE FirstOccurrences(_)
FirstOccurrences(s) ==
    IF s = <<>> THEN <<>>
    ELSE LET front == FirstOccurrences(SubSeq(s, 1, Len(s) - 1))
         IN  IF s[Len(s)] \in Range(front) THEN front
             ELSE Append(front, s[Len(s)])

\* C3 amended: for final_feed_size >= 0, whenever the three slices that
\* slice_buckets_by_ratio returns hold at least final_feed_size ids between
\* them, interleave_buckets takes exactly final_feed_size ids from the
\* slices and returns them without the repeats: exactly final_feed_size
\* ids when the ids taken are pairwise distinct, fewer when an id was
\* taken twice.
C3_ExactSizeAmended ==
    (/\ out.stage = "interleaved"
     /\ inp.final_feed_size >= 0
     /\ SlicesLen(out.slices) >= inp.final_feed_size)
    => /\ Len(out.final_feed) = inp.final_feed_size
       /\ Range(out.final_feed) \subseteq
              Range(out.slices.personal \o out.slices.category
                        \o out.slices.fresh)
       /\ out.final = FirstOccurrences(out.final_feed)
       /\ IsDupFree(out.final_feed) => Len(out.final) = inp.final_feed_size
       /\ ~IsDupFree(out.final_feed) => Len(out.final) < inp.final_feed_size

\* A call with ratios summing to one and a fresh bucket inside the personal
\* bucket: every bucket has a slot, the slices fill the size with fewer
\* personal ids than the size, and the size is returned.
C3_Witness ==
    /\ out.stage = "interleaved"
    /\ inp.ratios.personal + inp.ratios.category + inp.ratios.fresh = 100
    /\ inp.fresh # <<>>
    /\ BucketIds(inp.fresh) \subseteq BucketIds(inp.personal)
    /\ out.slices.category # <<>>
    /\ out.slices.fresh # <<>>
    /\ Len(out.slices.personal) < inp.final_feed_size
    /\ SlicesLen(out.slices) >= inp.final_feed_size
    /\ Len(out.final) = inp.final_feed_size

CadenceSlices ==
    [personal |-> <<"p1", "p2", "p3", "p4", "p5", "p6", "p7">>,
     category |-> <<"c1", "c2">>,
     fresh |-> <<>>]

\* C6 as stated: the cadence example interleaves to
\* p1,p2,p3,c1,c2,p4,p5,p6,p7.
C6_Cadence ==
    (inp = CadenceInput /\ out.stage = "interleaved") =>
        /\ out.slices = CadenceSlices
        /\ out.final = <<"p1", "p2", "p3", "c1", "c2",
                         "p4", "p5", "p6", "p7">>

\* C6 amended: the cadence example slices to p1..p7 / c1,c2 / nothing and
\* interleaves to p1,p2,p3,c1,p4,p5,p6,p7,c2.
C6_CadenceAmended ==
    (inp = CadenceInput /\ out.stage = "interleaved") =>
        /\ out.slices = CadenceSlices
        /\ out.final = <<"p1", "p2", "p3", "c1", "p4",
                         "p5", "p6", "p7", "c2">>

\* The cadence example has been sliced and interleaved.
C6_Witness ==
    /\ inp = CadenceInput
    /\ out.stage = "interleaved"
    /\ Len(out.final) = 9

\* floor(ratio * size) for a ratio in hundredths
FloorSlots(ratio, size) == (ratio * size) \div 100

\* The ids of bucket at the 0-based indices [from, to), as far as they exist.
IdsAt(bucket, from, to) ==
    [i \in 1..(Min(to, Len(bucket)) - from) |-> bucket[from + i][1]]

\* C7: for final_feed_size >= 0 the category and fresh slices are the first
\* min(n_x, len) ids of their buckets, n_x = floor(ratio_x * size), and the
\* personal slice is its own first n_personal ids followed, when the three
\* are short of the size, by the personal ids at [n_personal,
\* n_personal + deficit).
C7_BackfillOnlyFromPersonal ==
    (out.stage = "sliced" /\ inp.final_feed_size >= 0) =>
        LET size == inp.final_feed_size
            n_personal == FloorSlots(inp.ratios.personal, size)
            n_category == FloorSlots(inp.ratios.category, size)
            n_fresh == FloorSlots(inp.ratios.fresh, size)
            head == IdsAt(inp.personal, 0, n_personal)
            deficit == size - (Len(head) + Len(out.slices.category)
                                   + Len(out.slices.fresh))
        IN  /\ out.slices.category = IdsAt(inp.category, 0, n_category)
            /\ out.slices.fresh = IdsAt(inp.fresh, 0, n_fresh)
            /\ out.slices.personal =
                  IF deficit > 0
                  THEN head \o IdsAt(inp.personal, n_personal,
                                     n_personal + deficit)
                  ELSE head

\* A slicing that backfilled from personal, left personal ids unused, and
\* left category ids beyond the category slot count unused.
C7_Witness ==
    /\ out.stage = "sliced"
    /\ Len(out.slices.personal)
          > FloorSlots(inp.ratios.personal, inp.final_feed_size)
    /\ Len(out.slices.personal) < Len(inp.personal)
    /\ out.slices.category # <<>>
    /\ Len(out.slices.category) < Len(inp.category)

-----------------------------------------------------------------------------
(* Properties of the scoring gateway (specification SpecScoring) *)

\* C8: score_with_model_or_fallback never raises; when the scorer raises,
\* returns nothing or returns an empty mapping, the result is the fallback
\* map if one is supplied and non-empty, and otherwise maps every input id
\* to 0.0.
C8_ScoringFallback ==
    out.stage = "returned" =>
        /\ ~out.result.raised
        /\ inp.scorer.kind \in {"raise", "none", "empty"} =>
              IF inp.fallback_scores # None /\ inp.fallback_scores[1] # <<>>
              THEN out.result.value = inp.fallback_scores[1]
              ELSE /\ Keys(out.result.value) = inp.features
                   /\ \A i \in DOMAIN out.result.value :
                          out.result.value[i][2] = 0

\* The scorer raised and a non-empty fallback map was returned.
C8_Witness ==
    /\ out.stage = "returned"
    /\ inp.scorer.kind = "raise"
    /\ inp.features # <<>>
    /\ inp.fallback_scores # None
    /\ inp.fallback_scores[1] # <<>>
    /\ out.result.value = inp.fallback_scores[1]

-----------------------------------------------------------------------------
(* Properties of the metadata hydration (specification SpecHydration) *)

\* C9: when the primary store answers with no record for a non-empty id
\* list and the secondary store is configured and holds records for some of
\* the ids, the returned map has a record for each id the secondary found.
C9_HydrationFallback ==
    (/\ out.stage = "returned"
     /\ inp.prod_ids # <<>>
     /\ inp.pg.ok
     /\ Range(inp.pg.table) \cap Range(inp.prod_ids) = {}
     /\ inp.bq.configured
     /\ inp.bq.available)
    => \A id \in inp.bq.table \cap Range(inp.prod_ids) :
          \E i \in DOMAIN out.result.value : out.result.value[i][1] = id

-----------------------------------------------------------------------------
(* Properties of the history filter (specification SpecFilter) *)

\* s is a subsequence of t
IsSubsequence(s, t) ==
    \E f \in [DOMAIN s -> DOMAIN t] :
        /\ \A i, j \in DOMAIN s : i < j => f[i] < f[j]
        /\ \A i \in DOMAIN s : t[f[i]] = s[i]

\* C10: filtering the filtered list again changes nothing, and the filtered
\* list is the subsequence of the bucket list made of exactly the pairs
\* whose id is not in the shown-set.
C10_FilterIdempotent ==
    out.stage = "twice" =>
        /\ out.twice = out.once
        /\ IsSubsequence(out.once, inp.bucket_list)
        /\ \A i \in DOMAIN out.once : out.once[i][1] \notin inp.shown_set
        /\ Len(out.once) =
              Cardinality({i \in DOMAIN inp.bucket_list :
                               inp.bucket_list[i][1] \notin inp.shown_set})

\* A filtering that removed a pair and kept another.
C10_Witness ==
    /\ out.stage = "twice"
    /\ out.once # <<>>
    /\ Len(out.once) < Len(inp.bucket_list)

-----------------------------------------------------------------------------
(* Properties of interleave_buckets (specification SpecSlicer) *)

\* The distinct ids of the three slices handed to interleave_buckets.
SliceUnion(the_slices) ==
    Range(the_slices.personal) \cup Range(the_slices.category)
        \cup Range(the_slices.fresh)

\* C11: whenever the three slices passed to interleave_buckets together
\* hold at least final_feed_size distinct ids, the returned sequence has
\* exactly final_feed_size ids.
C11_ReachesSize ==
    (/\ out.stage = "interleaved"
     /\ Cardinality(SliceUnion(out.slices)) >= inp.final_feed_size)
    => Len(out.final) = inp.final_feed_size

-----------------------------------------------------------------------------
(* Properties of the response building (specification Spec) *)

\* The index of x in the duplicate-free sequence s.
IndexIn(s, x) == CHOOSE i \in DOMAIN s : s[i] = x

HasRecord(pid) ==
    \E i \in DOMAIN product_metadata : product_metadata[i][1] = pid

\* C12: the returned feed holds exactly the interleaved ids that have a
\* hydrated record, each once, in the order of the interleaved sequence.
C12_FeedIsHydratedSubsequence ==
    pc = "done" =>
        /\ Range(feed) = {pid \in Range(final_ids) : HasRecord(pid)}
        /\ IsDupFree(feed)
        /\ \A i, j \in DOMAIN feed :
              i < j => IndexIn(final_ids, feed[i]) < IndexIn(final_ids, feed[j])

\* A request answered although one of its interleaved ids had no record,
\* the store returning the records of the others in an order other than
\* the interleave order.
C12_Witness ==
    /\ pc = "done"
    /\ Len(feed) < Len(final_ids)
    /\ Len(feed) >= 2
    /\ Keys(product_metadata) # feed

-----------------------------------------------------------------------------
(* Properties of the request validation (specification Spec) *)

\* C13: a request with a negative requested size is rejected before the
\* pipeline runs: it makes no history-store call and never gets as far as
\* having retrieved candidates.
C13_NegativeSizeRejected ==
    (n # None /\ n[1] < 0) =>
        /\ fs_calls = <<>>
        /\ pc \notin {"interleaved", "recorded", "done"}

-----------------------------------------------------------------------------
(* Properties of the recording of shown items (specification Spec) *)

\* C14: a request records shown items at most once, and the shown history
\* changes only in a step taken once metadata hydration has completed, so
\* that a request failing during hydration leaves the history as it was.
C14_RecordAfterHydration ==
    /\ [](Cardinality({i \in DOMAIN fs_calls : fs_calls[i] = "add_shown"}) <= 1)
    /\ [][history' # history => pc = "done"]_vars

-----------------------------------------------------------------------------
(* Properties of the candidate retrieval (specification Spec) *)

\* C15: no request fails because one candidate query raised; the request
\* goes on with that source taken as empty.
C15_SourceOutageDegrades ==
    pc = "failed" => raised \notin CandidateCalls

-----------------------------------------------------------------------------
(* Properties of the anonymous sentinel (specification SpecCompare) *)

\* C16: for the same catalog, configuration and requested size, Monolith
\* scoring enabled included, the anonymous request and the request of a
\* registered user with an empty shown-set end alike and return the same
\* feed.
C16_AnonymousSameFeed ==
    (out.stage = "both" /\ inp.first.user_id = "anonymous") =>
        /\ out.first.failed = out.second.failed
        /\ out.first.feed = out.second.feed

-----------------------------------------------------------------------------
(* Properties of a history-store outage (specification SpecCompare) *)

\* C17: a request of a registered user made while no history client can be
\* built, or while every call of the client raises, fails only if the
\* primary catalog store is down, leaves the stored history as it was, and
\* ends like and returns the same feed as the request of a user with an
\* empty shown-set.
C17_HistoryOutageSoft ==
    (out.stage = "both" /\ inp.first.fs \in OutageStores) =>
        /\ out.first.failed => ~inp.env.pg.ok
        /\ out.first.shown_after = inp.first.fs.history[inp.first.user_id]
        /\ out.first.failed = out.second.failed
        /\ out.first.feed = out.second.feed

\* During an outage of a client whose calls raise, a feed of several items
\* was returned that holds an id stored as shown for the user.
C17_Witness ==
    /\ out.stage = "both"
    /\ inp.first.fs \in OutageStores
    /\ inp.first.fs.client = "client"
    /\ Len(out.first.feed) >= 2
    /\ Range(out.first.feed) \cap inp.first.fs.history[inp.first.user_id] # {}
    /\ out.first.feed = out.second.feed

-----------------------------------------------------------------------------
(* Properties of the bucket order (specification SpecBuckets) *)

\* The index of the first occurrence of x in s.
FirstIndex(s, x) ==
    CHOOSE i \in DOMAIN s : s[i] = x /\ \A j \in 1..(i - 1) : s[j] # x

\* bucket is in non-increasing score order, equal scores standing in the
\* order of their first occurrence in retrieved.
StableDescending(bucket, retrieved) ==
    \A i, j \in DOMAIN bucket :
        i < j =>
            /\ bucket[i][2] >= bucket[j][2]
            /\ bucket[i][2] = bucket[j][2] =>
                  FirstIndex(retrieved, bucket[i][1])
                      < FirstIndex(retrieved, bucket[j][1])

\* The personal scores are the zero-fill of the stub scorer.
ZeroFillScoring ==
    \/ ~inp.monolith_enabled
    \/ inp.is_anonymous
    \/ inp.monolith.kind = "raise"

\* C18: every bucket handed to the slicer is in non-increasing score order
\* with equal scores in retrieval order; under zero-fill scoring the
\* personal bucket holds exactly the unseen ids of popular-then-recent,
\* each once, in the order of their first occurrence, all scored 0.0.
C18_BucketOrder ==
    out.stage = "buckets" =>
        LET retrieved == inp.popular_ids \o inp.recent_ids
        IN  /\ StableDescending(out.personal, retrieved)
            /\ StableDescending(out.category, <<>>)
            /\ StableDescending(out.fresh, inp.recent_pool)
            /\ ZeroFillScoring =>
                  /\ BucketIds(out.personal) = Range(retrieved) \ inp.shown_set
                  /\ IsDupFree(Keys(out.personal))
                  /\ \A i \in DOMAIN out.personal : out.personal[i][2] = 0
                  /\ \A i, j \in DOMAIN out.personal :
                        i < j => FirstIndex(retrieved, out.personal[i][1])
                                     < FirstIndex(retrieved, out.personal[j][1])

\* A personal bucket scored by Monolith in which a later retrieved id
\* stands before an earlier one and two ids share a score, an id being
\* both popular and recent.
C18_Witness ==
    /\ out.stage = "buckets"
    /\ ~ZeroFillScoring
    /\ Range(inp.popular_ids) \cap Range(inp.recent_ids) # {}
    /\ \E i, j \in DOMAIN out.personal :
          /\ i < j
          /\ FirstIndex(inp.popular_ids \o inp.recent_ids, out.personal[i][1])
                > FirstIndex(inp.popular_ids \o inp.recent_ids,
                             out.personal[j][1])
    /\ \E i, j \in DOMAIN out.personal :
          i # j /\ out.personal[i][2] = out.personal[j][2]

-----------------------------------------------------------------------------
(* Properties of the cyclic walk (specification SpecWalk) *)

\* The queue a pass of the walk takes from: the one the pattern names if
\* it is non-empty, otherwise the first non-empty one of personal,
\* category, fresh.
WalkSource(queues, i) ==
    LET named == pattern[(i % 5) + 1]
    IN  IF queues[named] # <<>> THEN named
        ELSE IF queues.personal # <<>> THEN "personal"
        ELSE IF queues.category # <<>> THEN "category"
        ELSE "fresh"

\* C19: every pass of the cyclic walk appends exactly one id, the front of
\* the queue WalkSource gives, and removes it from that queue; after i
\* passes the walk has appended i ids.
C19_WalkAppendsOne ==
    /\ [](out.stage = "walking" => Len(out.final_feed) = out.i)
    /\ [][(out.stage = "walking" /\ out'.stage = "walking") =>
            LET src == WalkSource(out.queues, out.i)
            IN  /\ out'.final_feed
                      = Append(out.final_feed, Head(out.queues[src]))
                /\ out'.queues = [out.queues EXCEPT ![src] = Tail(@)]
                /\ out'.i = out.i + 1]_vars

\* A walk of nine passes over a personal slice of seven ids, no category
\* id and two fresh ids: the fourth pass found the category queue empty
\* and fell back to the personal queue, the fifth took the front of the
\* fresh queue its slot names, the sixth to eighth, the pattern having
\* started again, took from the personal queue, and the ninth found the
\* category and personal queues empty and fell back to the fresh queue.
C19_Witness ==
    /\ out.stage = "walking"
    /\ out.i = 9
    /\ inp.slices.category = <<>>
    /\ Len(inp.slices.fresh) = 2
    /\ Len(inp.slices.personal) = 7
    /\ out.final_feed = SubSeq(inp.slices.personal, 1, 4)
                            \o <<inp.slices.fresh[1]>>
                            \o SubSeq(inp.slices.personal, 5, 7)
                            \o <<inp.slices.fresh[2]>>

-----------------------------------------------------------------------------
(* Properties of repeated requests (specification SpecRepeat) *)

\* C20: with a working history store, every id that had been returned to
\* the user when a request arrived is in the shown-set that request read
\* and is not in the feed it returns, and every id it returns is stored as
\* shown.  Requests in progress at the same time are not constrained.
C20_NoRepeatAcrossFeeds ==
    \A r \in Requests :
        /\ out.reqs[r].pc = "history_loaded"
              => out.reqs[r].before \subseteq out.reqs[r].shown_set
        /\ Range(out.reqs[r].feed) \cap out.reqs[r].before = {}
        /\ Range(out.reqs[r].feed) \subseteq out.history["u1"]

\* A request returned ids after earlier requests had returned others, and
\* every product of the catalog has been returned.
C20_Witness ==
    \E r \in Requests :
        /\ out.reqs[r].pc = "done"
        /\ out.reqs[r].before # {}
        /\ out.reqs[r].feed # <<>>
        /\ out.reqs[r].before \cup Range(out.reqs[r].feed) = Ids

-----------------------------------------------------------------------------
(* Properties of overlapping requests (specification SpecConc) *)

BothDone == \A r \in Requests : out.reqs[r].pc = "done"

FeedsDisjoint ==
    Range(out.reqs[1].feed) \cap Range(out.reqs[2].feed) = {}

\* C21 as stated: under every interleaving of the steps of two overlapping
\* requests of one user, the two returned feeds have no id in common.
C21_OverlappingFeedsDisjoint == BothDone => FeedsDisjoint

\* C21 amended: the two feeds have no id in common when one of the requests
\* read the shown-set after the other had recorded its shown items.
C21_OverlappingFeedsDisjointAmended ==
    (BothDone /\ \E r \in Requests : out.reqs[r].after_record)
    => FeedsDisjoint

\* The second request read the shown-set after the first had recorded but
\* before it had answered, and both returned ids.
C21_Witness ==
    /\ out.reqs[1].pc = "recorded"
    /\ out.reqs[2].pc = "done"
    /\ out.reqs[2].after_record
    /\ out.reqs[1].final_ids # <<>>
    /\ out.reqs[2].feed # <<>>

-----------------------------------------------------------------------------
(* Properties of what is recorded as shown (specification SpecCompare) *)

\* C22: every id that a request which returns a feed records in the shown
\* history of the user, the history having been empty before, is in that
\* feed.
C22_RecordedWereDelivered ==
    (out.stage = "both" /\ ~out.second.failed) =>
        out.second.shown_after \subseteq Range(out.second.feed)

-----------------------------------------------------------------------------
(* Properties of the padding (specification SpecWalk) *)

\* C23: when the cyclic walk ends, final_feed has at least final_feed_size
\* entries or every queue is empty, and the padding appends nothing.
C23_PadAppendsNothing ==
    out.stage = "returned" =>
        /\ \/ Len(out.walked) >= inp.final_feed_size
           \/ ~AnyQueue(out.left)
        /\ out.padded = out.walked

\* A walk that ended with final_feed_size entries of several and ids left
\* in a queue.
C23_Witness ==
    /\ out.stage = "returned"
    /\ inp.final_feed_size >= 2
    /\ Len(out.walked) = inp.final_feed_size
    /\ AnyQueue(out.left)

-----------------------------------------------------------------------------
(* Properties of the result of interleave_buckets (specification SpecWalk) *)

SliceNames == {"personal", "category", "fresh"}

\* No id occurs twice in the three slices taken together.
DisjointSlices ==
    IsDupFree(inp.slices.personal \o inp.slices.category \o inp.slices.fresh)

TotalSliceIds ==
    Len(inp.slices.personal) + Len(inp.slices.category) + Len(inp.slices.fresh)

\* The ids of the result that come from one slice stand in the order they
\* have in that slice.
KeepsSliceOrder ==
    \A name \in SliceNames :
        \A i, j \in DOMAIN out.final :
            (/\ i < j
             /\ out.final[i] \in Range(inp.slices[name])
             /\ out.final[j] \in Range(inp.slices[name]))
            => IndexIn(inp.slices[name], out.final[i])
                   < IndexIn(inp.slices[name], out.final[j])

\* C24 as stated: every returned id occurs in a slice, and for duplicate-
\* free, pairwise disjoint slices the result has exactly
\* min(final_feed_size, total number of slice ids) ids, the ids of one slice
\* in their order in that slice, whatever final_feed_size is.
C24_InterleaveResult ==
    out.stage = "returned" =>
        /\ Range(out.final) \subseteq SliceUnion(inp.slices)
        /\ DisjointSlices =>
              /\ Len(out.final) = Min(inp.final_feed_size, TotalSliceIds)
              /\ KeepsSliceOrder

\* C24 amended: the count is claimed for final_feed_size >= 0 only.
C24_InterleaveResultAmended ==
    out.stage = "returned" =>
        /\ Range(out.final) \subseteq SliceUnion(inp.slices)
        /\ DisjointSlices =>
              /\ inp.final_feed_size >= 0 =>
                    Len(out.final) = Min(inp.final_feed_size, TotalSliceIds)
              /\ KeepsSliceOrder

\* Disjoint slices with fewer ids than the size, two of them personal and
\* one fresh, all returned.
C24_Witness ==
    /\ out.stage = "returned"
    /\ DisjointSlices
    /\ Len(inp.slices.personal) >= 2
    /\ inp.slices.fresh # <<>>
    /\ inp.final_feed_size > TotalSliceIds
    /\ Len(out.final) = TotalSliceIds

-----------------------------------------------------------------------------
(* The size budget of slice_buckets_by_ratio (specification SpecSlicer) *)

IsPrefixOf(s, t) == Len(s) <= Len(t) /\ s = SubSeq(t, 1, Len(s))

\* The slot counts of the three buckets together
SlotSum(ratios, size) ==
    FloorSlots(ratios.personal, size) + FloorSlots(ratios.category, size)
        + FloorSlots(ratios.fresh, size)

\* C25: for final_feed_size >= 0 and ratios whose floor-rounded slot counts
\* sum to at most final_feed_size, the three slices together, backfill
\* included, have at most final_feed_size ids, and the personal slice is a
\* prefix of the personal bucket.
C25_SlicesWithinSize ==
    (/\ out.stage = "sliced"
     /\ inp.final_feed_size >= 0
     /\ SlotSum(inp.ratios, inp.final_feed_size) <= inp.final_feed_size) =>
        /\ SlicesLen(out.slices) <= inp.final_feed_size
        /\ IsPrefixOf(out.slices.personal, Keys(inp.personal))

\* A slicing within the slot budget that backfilled behind a non-empty
\* personal slot share, filled the size, and left personal ids unused.
C25_Witness ==
    /\ out.stage = "sliced"
    /\ SlotSum(inp.ratios, inp.final_feed_size) <= inp.final_feed_size
    /\ FloorSlots(inp.ratios.personal, inp.final_feed_size) >= 1
    /\ Len(out.slices.personal)
          > FloorSlots(inp.ratios.personal, inp.final_feed_size)
    /\ Len(out.slices.personal) < Len(inp.personal)
    /\ SlicesLen(out.slices) = inp.final_feed_size

-----------------------------------------------------------------------------
(* Properties of like_product and unlike_product (specification SpecLikes) *)

\* The users holding a like document for product_id
LikersOf(product_id) == {u \in LikeUsers : <<u, product_id>> \in out.likes}

\* C26: a like_product or unlike_product call that answers success=False
\* (anonymous user, failure of the products table or of the like-document
\* store) has changed neither the product's like_count nor a like document.
C26_FailedCallChangesNothing ==
    out.response.success = FALSE =>
        /\ out.effect.count_delta = 0
        /\ ~out.effect.doc_changed

NoCallInProgress == \A c \in LikeCalls : out.calls[c].pc = "idle"

\* C27: when no call is in progress and every call so far was a successful
\* like_product or unlike_product call of a logged-in user with a working
\* like-document store, starting from like_count 0 and no like documents,
\* every like_count is >= 0 and equals the number of users holding a like
\* document for the product.
C27_CountEqualsLikers ==
    (out.clean /\ NoCallInProgress) =>
        \A p \in DOMAIN out.products :
            /\ out.products[p] >= 0
            /\ out.products[p] = Cardinality(LikersOf(p))

====
